---- MODULE Spec2Model ----
(***************************************************************************)
(* Model of the comic / anime cover generator: the three provider clients  *)
(* (ComicVineClient, JikanClient, MarvelClient) with their transport retry *)
(* loops, the validity filters and normalizers of server.py, and the two   *)
(* orchestrating handlers random_comic and random_anime.                   *)
(***************************************************************************)
EXTENDS Integers, Sequences, FiniteSets, TLC

(***************************************************************************)
(* Python values.  Every value is a tagged record so that values of        *)
(* different Python types can be compared.  A string is a sequence of      *)
(* tokens: literals are one token, strings that the code parses (dates)    *)
(* are one token per character.                                            *)
(***************************************************************************)
None == [t |-> "none"]
Str(s) == [t |-> "str", s |-> s]
Num(n) == [t |-> "int", n |-> n]
Dict(f) == [t |-> "dict", d |-> f]
List(l) == [t |-> "list", l |-> l]
Raised(type, text, detail) == [t |-> "exc", type |-> type, text |-> text, detail |-> detail]

EmptyStr == Str(<<>>)
EmptyDict == Dict(<<>>)
EmptyList == List(<<>>)
Lit(s) == Str(<<s>>)

AttributeError == Raised("AttributeError", "object has no attribute", None)
TypeError == Raised("TypeError", "object is not subscriptable", None)
KeyError == Raised("KeyError", "0", None)
IndexError == Raised("IndexError", "index out of range", None)
ValueError == Raised("ValueError", "invalid literal for int()", None)

IsExc(v) == "t" \in DOMAIN v /\ v.t = "exc"

\* bool(v)
Truthy(v) ==
    CASE v.t = "none" -> FALSE
      [] v.t = "str"  -> v.s # <<>>
      [] v.t = "int"  -> v.n # 0
      [] v.t = "dict" -> DOMAIN v.d # {}
      [] v.t = "list" -> v.l # <<>>
      [] OTHER        -> TRUE

\* v.get(k, default): only a dict has .get
Get(v, k, default) ==
    IF v.t = "dict"
    THEN IF k \in DOMAIN v.d THEN v.d[k] ELSE default
    ELSE AttributeError

\* a or b
Or(a, b) == IF Truthy(a) THEN a ELSE b

\* v[0]
First(v) ==
    CASE v.t = "list" -> IF v.l = <<>> THEN IndexError ELSE v.l[1]
      [] v.t = "str"  -> IF v.s = <<>> THEN IndexError ELSE Str(<<v.s[1]>>)
      [] v.t = "dict" -> KeyError
      [] OTHER        -> TypeError

(***************************************************************************)
(* Year extraction: int(date.split('-')[0]).                               *)
(***************************************************************************)
Digits == <<"0", "1", "2", "3", "4", "5", "6", "7", "8", "9">>
IsDigit(c) == \E d \in 1..10 : Digits[d] = c
DigitVal(c) == (CHOOSE d \in 1..10 : Digits[d] = c) - 1

\* s.split('-')[0]: the characters before the first '-'
RECURSIVE SplitFirst(_)
SplitFirst(s) ==
    IF s = <<>> \/ Head(s) = "-" THEN <<>>
    ELSE <<Head(s)>> \o SplitFirst(Tail(s))

\* str.strip() of blanks
RECURSIVE LStrip(_)
LStrip(s) == IF s # <<>> /\ Head(s) = " " THEN LStrip(Tail(s)) ELSE s
RECURSIVE RStrip(_)
RStrip(s) == IF s # <<>> /\ s[Len(s)] = " " THEN RStrip(SubSeq(s, 1, Len(s) - 1)) ELSE s

\* a digit string with single underscores between digits, as int() accepts
RECURSIVE DigitsOk(_, _)
DigitsOk(s, prevDigit) ==
    IF s = <<>> THEN prevDigit
    ELSE IF IsDigit(Head(s)) THEN DigitsOk(Tail(s), TRUE)
    ELSE IF Head(s) = "_" THEN prevDigit /\ DigitsOk(Tail(s), FALSE)
    ELSE FALSE

RECURSIVE DigitsValue(_, _)
DigitsValue(s, acc) ==
    IF s = <<>> THEN acc
    ELSE IF Head(s) = "_" THEN DigitsValue(Tail(s), acc)
    ELSE DigitsValue(Tail(s), 10 * acc + DigitVal(Head(s)))

\* int(s) for a str s: the number, or ValueError
ParseInt(s) ==
    LET b == RStrip(LStrip(s))
        signed == b # <<>> /\ Head(b) \in {"+", "-"}
        body == IF signed THEN Tail(b) ELSE b
    IN IF DigitsOk(body, FALSE)
       THEN Num(IF signed /\ Head(b) = "-" THEN 0 - DigitsValue(body, 0) ELSE DigitsValue(body, 0))
       ELSE ValueError

\* the try/except around int(date.split('-')[0]); date is truthy here.
\* A date that is not a str has no split(): AttributeError, which the inner
\* except (ValueError, IndexError) does not catch.
YearFromDate(date) ==
    IF date.t # "str" THEN AttributeError
    ELSE LET r == ParseInt(SplitFirst(date.s))
         IN IF IsExc(r) THEN None ELSE r

(***************************************************************************)
(* Configuration constants of the three clients and of the server.         *)
(***************************************************************************)
Clients == {"comic", "jikan", "marvel"}

COMIC_MAX_RETRIES == 3
COMIC_RETRY_DELAY == 1
JIKAN_MAX_RETRIES == 3
JIKAN_RETRY_DELAY == 2
MARVEL_MAX_RETRIES == 3
MARVEL_RETRY_DELAY == 1
MIN_COMIC_YEAR == 1960
MAX_COMIC_YEAR == 2023
MAX_RETRY_ATTEMPTS == 10

MAX_RETRIES(c) ==
    CASE c = "comic"  -> COMIC_MAX_RETRIES
      [] c = "jikan"  -> JIKAN_MAX_RETRIES
      [] c = "marvel" -> MARVEL_MAX_RETRIES

RETRY_DELAY(c) ==
    CASE c = "comic"  -> COMIC_RETRY_DELAY
      [] c = "jikan"  -> JIKAN_RETRY_DELAY
      [] c = "marvel" -> MARVEL_RETRY_DELAY

\* the exception class of each client
APIError(c) ==
    CASE c = "comic"  -> "ComicVineAPIError"
      [] c = "jikan"  -> "JikanAPIError"
      [] c = "marvel" -> "MarvelAPIError"

(***************************************************************************)
(* What one pass through the body of the retry loop does: return a         *)
(* (year, item) pair, raise, or sleep and continue with the next attempt.  *)
(***************************************************************************)
Return(year, item) == [act |-> "return", year |-> year, item |-> item]
Raise(exc) == [act |-> "raise", exc |-> exc]
SleepAndContinue(delay) == [act |-> "retry", delay |-> delay]

AttemptsRemain_OneFewer(c, attempt) == attempt < MAX_RETRIES(c) - 2

AttemptsRemain_Always(c, attempt) == attempt < MAX_RETRIES(c)

\* if attempt < MAX_RETRIES - 1
AttemptsRemain(c, attempt) == attempt < MAX_RETRIES(c) - 1

OnTimeout_AlwaysRetry(c, attempt) == SleepAndContinue(RETRY_DELAY(c))

\* except requests.exceptions.Timeout
OnTimeout(c, attempt) ==
    IF AttemptsRemain(c, attempt)
    THEN SleepAndContinue(RETRY_DELAY(c))
    ELSE Raise(Raised(APIError(c), "Request timed out after multiple attempts", None))

RateLimitDelay_Base(c) == RETRY_DELAY(c)

\* time.sleep(RETRY_DELAY * 2) in the 429 branch of the Jikan client
RateLimitDelay(c) == RETRY_DELAY(c) * 2

ComicOnHTTPError_Retry420(attempt, status) ==
    IF status = 420
    THEN IF AttemptsRemain("comic", attempt)
         THEN SleepAndContinue(RateLimitDelay("comic"))
         ELSE Raise(Raised("ComicVineAPIError", "Rate limit exceeded. Please wait before making more requests.", None))
    ELSE Raise(Raised("ComicVineAPIError", "Comic Vine API returned error: ", Num(status)))

\* except requests.exceptions.HTTPError, comic_client.py
ComicOnHTTPError(attempt, status) ==
    IF status = 420
    THEN Raise(Raised("ComicVineAPIError", "Rate limit exceeded. Please wait before making more requests.", None))
    ELSE Raise(Raised("ComicVineAPIError", "Comic Vine API returned error: ", Num(status)))

JikanOnHTTPError_RetryAll(attempt, status) ==
    IF AttemptsRemain("jikan", attempt)
    THEN SleepAndContinue(IF status = 429 THEN RateLimitDelay("jikan") ELSE RETRY_DELAY("jikan"))
    ELSE IF status = 429
         THEN Raise(Raised("JikanAPIError", "Rate limit exceeded. Please wait before making more requests.", None))
         ELSE Raise(Raised("JikanAPIError", "Jikan API returned error: ", Num(status)))

\* except requests.exceptions.HTTPError, anime_client.py
JikanOnHTTPError(attempt, status) ==
    IF status = 429
    THEN IF AttemptsRemain("jikan", attempt)
         THEN SleepAndContinue(RateLimitDelay("jikan"))
         ELSE Raise(Raised("JikanAPIError", "Rate limit exceeded. Please wait before making more requests.", None))
    ELSE Raise(Raised("JikanAPIError", "Jikan API returned error: ", Num(status)))

\* except requests.exceptions.HTTPError, random_comic.py
MarvelOnHTTPError(attempt, status) ==
    Raise(Raised("MarvelAPIError", "Marvel API returned error: ", Num(status)))

OnHTTPError(c, attempt, status) ==
    CASE c = "comic"  -> ComicOnHTTPError(attempt, status)
      [] c = "jikan"  -> JikanOnHTTPError(attempt, status)
      [] c = "marvel" -> MarvelOnHTTPError(attempt, status)

ConnectFailedText(c) ==
    CASE c = "comic"  -> "Failed to connect to Comic Vine API: "
      [] c = "jikan"  -> "Failed to connect to Jikan API: "
      [] c = "marvel" -> "Failed to connect to Marvel API: "

OnRequestException_AsTimeout(c, attempt, text) == OnTimeout(c, attempt)

\* except requests.exceptions.RequestException as e
OnRequestException(c, attempt, text) ==
    IF AttemptsRemain(c, attempt)
    THEN SleepAndContinue(RETRY_DELAY(c))
    ELSE Raise(Raised(APIError(c), ConnectFailedText(c), text))

\* An exception raised inside the try block while the payload is parsed:
\* except (KeyError, ValueError) wraps it, anything else leaves the method
\* as it is (the client's own error, or an untyped exception).
OnParseException(c, exc) ==
    IF exc.type \in {"KeyError", "ValueError"}
    THEN Raise(Raised(APIError(c), "Invalid API response format: ", Lit(exc.text)))
    ELSE Raise(exc)

(***************************************************************************)
(* Parsing of a decoded JSON payload (the try block after response.json()).*)
(* The result is the exception raised inside the try block, or the pair    *)
(* the method returns.                                                     *)
(***************************************************************************)
ComicParse_NoEnvelopeCheck(data) ==
    LET results == Get(data, "results", EmptyList)
        comic == First(results)
        cover_date == Get(comic, "cover_date", EmptyStr)
        year == IF Truthy(cover_date) THEN YearFromDate(cover_date) ELSE None
    IN IF IsExc(results) THEN results
       ELSE IF ~Truthy(results) THEN Return(None, None)
       ELSE IF IsExc(comic) THEN comic
       ELSE IF IsExc(cover_date) THEN cover_date
       ELSE IF IsExc(year) THEN year
       ELSE Return(year, comic)

\* ComicVineClient.get_random_comic, from data = response.json() on
ComicParse(data) ==
    LET err == Get(data, "error", None)
        results == Get(data, "results", EmptyList)
        comic == First(results)
        cover_date == Get(comic, "cover_date", EmptyStr)
        year == IF Truthy(cover_date) THEN YearFromDate(cover_date) ELSE None
    IN IF IsExc(err) THEN err
       ELSE IF err # Lit("OK")
            THEN Raised("ComicVineAPIError", "API returned error: ",
                        Get(data, "error", Lit("Unknown error")))
       ELSE IF ~Truthy(results) THEN Return(None, None)
       ELSE IF IsExc(comic) THEN comic
       ELSE IF IsExc(cover_date) THEN cover_date
       ELSE IF IsExc(year) THEN year
       ELSE Return(year, comic)

\* JikanClient.get_random_anime, from data = response.json() on
JikanParse(data) ==
    LET anime == Get(data, "data", None)
        direct == Get(anime, "year", None)
        aired == Get(anime, "aired", EmptyDict)
        from_date == Get(aired, "from", EmptyStr)
    IN IF IsExc(anime) THEN anime
       ELSE IF ~Truthy(anime) THEN Return(None, None)
       ELSE IF IsExc(direct) THEN direct
       ELSE IF Truthy(direct) THEN Return(direct, anime)
       ELSE IF ~Truthy(aired) THEN Return(direct, anime)
       ELSE IF IsExc(from_date) THEN from_date
       ELSE IF ~Truthy(from_date) THEN Return(direct, anime)
       ELSE LET y == YearFromDate(from_date)
            IN IF IsExc(y) THEN y
               ELSE IF y = None THEN Return(direct, anime)
               ELSE Return(y, anime)

\* MarvelClient.get_random_comic, from data = response.json() on
MarvelParse(data, random_year) ==
    LET container == Get(data, "data", EmptyDict)
        comics == Get(container, "results", EmptyList)
        item == IF Truthy(comics) THEN First(comics) ELSE None
    IN IF IsExc(container) THEN container
       ELSE IF IsExc(comics) THEN comics
       ELSE IF IsExc(item) THEN item
       ELSE Return(Num(random_year), item)

Parse(c, data, random_year) ==
    CASE c = "comic"  -> ComicParse(data)
      [] c = "jikan"  -> JikanParse(data)
      [] c = "marvel" -> MarvelParse(data, random_year)

(***************************************************************************)
(* One HTTP exchange as the client sees it: requests.get(),                *)
(* raise_for_status() and response.json().                                 *)
(***************************************************************************)
Timeout == [k |-> "timeout"]
NetworkError(text) == [k |-> "neterr", text |-> text]
HTTPError(status) == [k |-> "http", status |-> status]
\* response.json() fails.  The exception is a ValueError; from requests 2.27
\* on it is also a RequestException, and then the earlier except clause wins.
BadJSON(asRequestException) == [k |-> "badjson", asRequestException |-> asRequestException]
OK(body) == [k |-> "ok", body |-> body]

\* One iteration of "for attempt in range(MAX_RETRIES)" on response r
Attempt(c, attempt, r, random_year) ==
    CASE r.k = "timeout" -> OnTimeout(c, attempt)
      [] r.k = "http"    -> OnHTTPError(c, attempt, r.status)
      [] r.k = "neterr"  -> OnRequestException(c, attempt, r.text)
      [] r.k = "badjson" ->
           IF r.asRequestException
           THEN OnRequestException(c, attempt, Lit("Expecting value"))
           ELSE OnParseException(c, Raised("ValueError", "Expecting value", None))
      [] r.k = "ok" ->
           LET p == Parse(c, r.body, random_year)
           IN IF IsExc(p) THEN OnParseException(c, p) ELSE p

(***************************************************************************)
(* server.py: validity filters and normalizers.                            *)
(***************************************************************************)
Bool(b) == [t |-> "bool", b |-> b]

\* str(v) as an f-string renders it
Format(v) ==
    CASE v.t = "str"  -> v.s
      [] v.t = "none" -> <<"None">>
      [] v.t = "int"  -> <<ToString(v.n)>>
      [] v.t = "dict" -> <<"{..}">>
      [] v.t = "list" -> <<"[..]">>
      [] OTHER        -> <<"?">>

\* a += f"..." : the left operand must be a str
PlusEq(a, suffix) == IF a.t = "str" THEN Str(a.s \o suffix) ELSE TypeError

is_valid_comic_AnyImage(comic) ==
    LET image == Get(comic, "image", None)
    IN IF ~Truthy(comic) THEN Bool(FALSE)
       ELSE IF IsExc(image) THEN image
       ELSE Bool(Truthy(image))

is_valid_comic(comic) ==
    LET image == Get(comic, "image", None)
        medium_url == Get(image, "medium_url", EmptyStr)
        small_url == Get(image, "small_url", EmptyStr)
        original_url == Get(image, "original_url", EmptyStr)
    IN IF ~Truthy(comic) THEN Bool(FALSE)
       ELSE IF IsExc(image) THEN image
       ELSE IF ~Truthy(image) THEN Bool(FALSE)
       ELSE IF IsExc(medium_url) THEN medium_url
       ELSE Bool(Truthy(Or(Or(medium_url, small_url), original_url)))

\* the title built by format_comic_response
ComicTitle(comic) ==
    LET name == Get(comic, "name", EmptyStr)
        issue_number == Get(comic, "issue_number", EmptyStr)
        volume == Get(comic, "volume", EmptyDict)
        volume_name == IF Truthy(volume) THEN Get(volume, "name", Lit("Unknown Series"))
                       ELSE Lit("Unknown Series")
    IN IF IsExc(name) THEN name
       ELSE IF IsExc(volume_name) THEN volume_name
       ELSE IF Truthy(issue_number)
            THEN LET title == Str(Format(volume_name) \o <<" #">> \o Format(issue_number))
                 IN IF Truthy(name) THEN PlusEq(title, <<" - ">> \o Format(name)) ELSE title
            ELSE IF Truthy(name) THEN PlusEq(volume_name, <<" - ">> \o Format(name))
                 ELSE volume_name

\* the "urls" list: zero or one detail entry
Urls(detail_url) ==
    IF Truthy(detail_url)
    THEN List(<<Dict([type |-> Lit("detail"), url |-> detail_url])>>)
    ELSE EmptyList

WithYear_Always(data, year) == Dict([comic |-> data, year |-> year])

\* response = {"comic": data}; if year: response["year"] = year
WithYear(data, year) ==
    IF Truthy(year) THEN Dict([comic |-> data, year |-> year]) ELSE Dict([comic |-> data])

ComicCoverUrl_OriginalFirst(comic) ==
    LET image == Get(comic, "image", EmptyDict)
        original_url == Get(image, "original_url", None)
    IN IF IsExc(image) THEN image
       ELSE IF IsExc(original_url) THEN original_url
       ELSE Or(Or(Or(original_url, Get(image, "small_url", None)),
                  Get(image, "medium_url", None)), EmptyStr)

\* the cover_url chosen by format_comic_response
ComicCoverUrl(comic) ==
    LET image == Get(comic, "image", EmptyDict)
        medium_url == Get(image, "medium_url", None)
    IN IF IsExc(image) THEN image
       ELSE IF IsExc(medium_url) THEN medium_url
       ELSE Or(Or(Or(medium_url, Get(image, "small_url", None)),
                  Get(image, "original_url", None)), EmptyStr)

format_comic_response(comic, year) ==
    LET title == ComicTitle(comic)
        cover_url == ComicCoverUrl(comic)
        detail_url == Get(comic, "site_detail_url", EmptyStr)
    IN IF IsExc(title) THEN title
       ELSE IF IsExc(cover_url) THEN cover_url
       ELSE WithYear(Dict([title |-> title, coverUrl |-> cover_url, urls |-> Urls(detail_url)]), year)

is_valid_anime(anime) ==
    LET images == Get(anime, "images", None)
        jpg_images == Get(images, "jpg", EmptyDict)
        large == Get(jpg_images, "large_image_url", None)
    IN IF ~Truthy(anime) THEN Bool(FALSE)
       ELSE IF IsExc(images) THEN images
       ELSE IF ~Truthy(images) THEN Bool(FALSE)
       ELSE IF IsExc(jpg_images) THEN jpg_images
       ELSE IF IsExc(large) THEN large
       ELSE Bool(Truthy(Or(large, Get(jpg_images, "image_url", None))))

AnimeTitle_NativeFirst(anime) ==
    LET native == Get(anime, "title", None)
    IN IF IsExc(native) THEN native
       ELSE Or(Or(native, Get(anime, "title_english", None)), Lit("Unknown Anime"))

\* the title chosen by format_anime_response
AnimeTitle(anime) ==
    LET english == Get(anime, "title_english", None)
    IN IF IsExc(english) THEN english
       ELSE Or(Or(english, Get(anime, "title", None)), Lit("Unknown Anime"))

\* the cover_url chosen by format_anime_response
AnimeCoverUrl(anime) ==
    LET images == Get(anime, "images", EmptyDict)
        jpg_images == Get(images, "jpg", EmptyDict)
        large == Get(jpg_images, "large_image_url", None)
    IN IF IsExc(images) THEN images
       ELSE IF IsExc(jpg_images) THEN jpg_images
       ELSE IF IsExc(large) THEN large
       ELSE Or(Or(large, Get(jpg_images, "image_url", None)), EmptyStr)

format_anime_response(anime, year) ==
    LET title == AnimeTitle(anime)
        cover_url == AnimeCoverUrl(anime)
        mal_url == Get(anime, "url", EmptyStr)
    IN IF IsExc(title) THEN title
       ELSE IF IsExc(cover_url) THEN cover_url
       ELSE WithYear(Dict([title |-> title, coverUrl |-> cover_url, urls |-> Urls(mal_url)]), year)

(***************************************************************************)
(* The payloads and responses the providers are taken to send.             *)
(***************************************************************************)
CoverUrl == Lit("http://x/y.jpg")
DetailUrl == Lit("http://x/detail")
Date1989 == Str(<<"1", "9", "8", "9", "-", "0", "7", "-", "0", "3">>)
DateUnknown == Str(<<"u", "n", "k", "n", "o", "w", "n">>)

ComicGood ==
    Dict([name |-> Lit("Issue"), issue_number |-> Lit("7"),
          volume |-> Dict([name |-> Lit("Series")]), cover_date |-> Date1989,
          image |-> Dict([medium_url |-> CoverUrl, small_url |-> CoverUrl,
                          original_url |-> CoverUrl]),
          site_detail_url |-> DetailUrl])
ComicSmallOnly ==
    Dict([name |-> None, cover_date |-> DateUnknown,
          image |-> Dict([medium_url |-> EmptyStr, small_url |-> CoverUrl])])
ComicNoImage == Dict([name |-> Lit("Issue"), cover_date |-> Date1989])
ComicEmptyImage ==
    Dict([name |-> Lit("Issue"),
          image |-> Dict([medium_url |-> EmptyStr, small_url |-> None])])
ComicImageNotDict == Dict([name |-> Lit("Issue"), image |-> CoverUrl])
ComicVolumeNotDict ==
    Dict([name |-> Lit("Issue"), volume |-> Lit("Series"),
          image |-> Dict([medium_url |-> CoverUrl])])
ComicDateNotStr ==
    Dict([name |-> Lit("Issue"), cover_date |-> Num(1989),
          image |-> Dict([medium_url |-> CoverUrl])])

ComicItems ==
    {ComicGood, ComicSmallOnly, ComicNoImage, ComicEmptyImage,
     ComicImageNotDict, ComicVolumeNotDict, ComicDateNotStr}

ComicBodies ==
    {Dict([error |-> Lit("OK"), results |-> List(<<item>>)]) : item \in ComicItems}
    \cup {Dict([error |-> Lit("OK"), results |-> EmptyList]),
          Dict([error |-> Lit("OK"), results |-> Dict([id |-> Num(1)])]),
          Dict([error |-> Lit("Invalid API Key"), results |-> EmptyList]),
          Dict([results |-> List(<<ComicGood>>)]),
          List(<<ComicGood>>)}

AnimeGood ==
    Dict([title |-> Lit("Native"), title_english |-> Lit("English"), year |-> Num(1998),
          images |-> Dict([jpg |-> Dict([large_image_url |-> CoverUrl,
                                         image_url |-> CoverUrl])]),
          url |-> DetailUrl])
AnimeNative ==
    Dict([title |-> Lit("Native"), year |-> None,
          aired |-> Dict([from |-> Date1989]),
          images |-> Dict([jpg |-> Dict([image_url |-> CoverUrl])])])
AnimeNoImages == Dict([title |-> Lit("Native"), year |-> Num(1998)])
AnimeJpgEmpty ==
    Dict([title |-> Lit("Native"), aired |-> Dict([from |-> DateUnknown]),
          images |-> Dict([jpg |-> EmptyDict])])
AnimeJpgNull ==
    Dict([title |-> Lit("Native"),
          images |-> Dict([jpg |-> None,
                           webp |-> Dict([image_url |-> CoverUrl])])])

AnimeItems == {AnimeGood, AnimeNative, AnimeNoImages, AnimeJpgEmpty, AnimeJpgNull}

JikanBodies ==
    {Dict([data |-> item]) : item \in AnimeItems}
    \cup {Dict([data |-> None]), EmptyDict, List(<<AnimeGood>>),
          Dict([data |-> Lit("gone")])}

MarvelGood ==
    Dict([title |-> Lit("Issue"),
          thumbnail |-> Dict([path |-> Lit("http://x/y"), extension |-> Lit("jpg")])])
MarvelThumbnailNull == Dict([title |-> Lit("Issue"), thumbnail |-> None])

MarvelBodies ==
    {Dict([data |-> Dict([results |-> List(<<MarvelGood>>)])]),
     Dict([data |-> Dict([results |-> List(<<MarvelThumbnailNull>>)])]),
     Dict([data |-> Dict([results |-> EmptyList])]),
     Dict([data |-> Dict([results |-> Dict([id |-> Num(1)])])]),
     Dict([data |-> None]),
     EmptyDict}

Bodies(c) ==
    CASE c = "comic"  -> ComicBodies
      [] c = "jikan"  -> JikanBodies
      [] c = "marvel" -> MarvelBodies

\* text of the transport library's exceptions
UpstreamTexts == {Lit("Connection refused"), Lit("Max retries exceeded with url: /issues/?api_key=k")}
Statuses == {404, 420, 429, 500}

Responses(c) ==
    {Timeout}
    \cup {NetworkError(text) : text \in UpstreamTexts}
    \cup {HTTPError(status) : status \in Statuses}
    \cup {BadJSON(b) : b \in BOOLEAN}
    \cup {OK(body) : body \in Bodies(c)}

(***************************************************************************)
(* Item shapes for following one sample through parsing, filter and        *)
(* normalizer: one field is varied at a time around a well-formed item.    *)
(***************************************************************************)
\* a key the JSON object does not have
Absent == [t |-> "absent"]
Obj(f) == Dict([k \in {j \in DOMAIN f : f[j] # Absent} |-> f[k]])

MediumUrl == Lit("http://x/m.jpg")
OriginalUrl == Lit("http://x/o.jpg")
\* the provider's "no image" artwork
PlaceholderMarker == "image_not_available"
PlaceholderUrl == Str(<<"http://x/", PlaceholderMarker, ".jpg">>)
UrlValues == {Absent, None, EmptyStr, PlaceholderUrl}

DateShortYear == Str(<<"8", "9", "-", "0", "7", "-", "0", "3">>)
DateCompact == Str(<<"1", "9", "8", "9", "0", "7", "0", "3">>)
DateSlashes == Str(<<"1", "9", "8", "9", "/", "0", "7", "/", "0", "3">>)
DateYearZero == Str(<<"0", "0", "0", "0", "-", "0", "1", "-", "0", "1">>)
DateLeadingDash == Str(<<"-", "1", "9", "8", "9">>)
DateStrings ==
    {Date1989, DateUnknown, EmptyStr, DateShortYear, DateCompact, DateSlashes,
     DateYearZero, DateLeadingDash}
DateValues == DateStrings \cup {Absent, None, Num(1989)}

GoodImage == Dict([medium_url |-> MediumUrl, small_url |-> CoverUrl, original_url |-> OriginalUrl])
ProbeComicImages ==
    {Obj([medium_url |-> m, small_url |-> s, original_url |-> o]) :
        m \in UrlValues \cup {MediumUrl}, s \in UrlValues \cup {CoverUrl},
        o \in UrlValues \cup {OriginalUrl}}
    \cup {Absent, None, EmptyDict, EmptyList, CoverUrl}

ProbeComicItems ==
    ComicItems
    \cup {Obj([name |-> Lit("Issue"), cover_date |-> Date1989, image |-> img]) :
             img \in ProbeComicImages}
    \cup {Obj([name |-> Lit("Issue"), cover_date |-> date, image |-> GoodImage]) :
             date \in DateValues}

GoodImages == Dict([jpg |-> Dict([large_image_url |-> MediumUrl, image_url |-> CoverUrl])])
ProbeAnimeJpgs ==
    {Obj([large_image_url |-> l, image_url |-> u]) :
        l \in UrlValues \cup {MediumUrl}, u \in UrlValues \cup {CoverUrl}}
    \cup {Absent, None, EmptyDict, CoverUrl}
ProbeAnimeImages ==
    {Obj([jpg |-> j, webp |-> Dict([image_url |-> CoverUrl])]) : j \in ProbeAnimeJpgs}
    \cup {Absent, None, EmptyDict, CoverUrl}
TitleValues(text) == {Absent, None, EmptyStr, Lit(text)}
YearValues == {Absent, None, Num(0), Num(98), Num(1998), EmptyStr, Lit("1998")}
AiredValues == {Absent, None, EmptyDict} \cup {Obj([from |-> date]) : date \in DateValues}

ProbeAnimeItems ==
    AnimeItems
    \cup {Obj([title_english |-> e, title |-> n, year |-> Num(1998), images |-> GoodImages]) :
             e \in TitleValues("English"), n \in TitleValues("Native")}
    \cup {Obj([title |-> Lit("Native"), year |-> Num(1998), images |-> images]) :
             images \in ProbeAnimeImages}
    \cup {Obj([title |-> Lit("Native"), year |-> y, aired |-> aired, images |-> GoodImages]) :
             y \in YearValues, aired \in AiredValues}

ProbeBodies(c) ==
    Bodies(c)
    \cup CASE c = "comic" ->
                {Dict([error |-> Lit("OK"), results |-> List(<<item>>)]) : item \in ProbeComicItems}
           [] c = "jikan" -> {Dict([data |-> item]) : item \in ProbeAnimeItems}
           [] c = "marvel" -> {}

(***************************************************************************)
(* Client construction and the process environment.                        *)
(***************************************************************************)
Key == Lit("k")

\* ComicVineClient.__init__
ComicVineClient(api_key) ==
    IF ~Truthy(api_key) THEN Raised("ValueError", "API key is required", None)
    ELSE Dict([api_key |-> api_key,
               base_url |-> Lit("https://comicvine.gamespot.com/api"),
               headers |-> Dict([agent |-> Lit("Comic Cover Generator/1.0")])])

\* JikanClient.__init__
JikanClient ==
    Dict([base_url |-> Lit("https://api.jikan.moe/v4"),
          headers |-> Dict([agent |-> Lit("Cover Generator/1.0")])])

\* MarvelClient.__init__
MarvelClient(public_key, private_key) ==
    IF ~Truthy(public_key) \/ ~Truthy(private_key)
    THEN Raised("ValueError", "Public key and private key are required", None)
    ELSE Dict([public_key |-> public_key, private_key |-> private_key,
               base_url |-> Lit("https://gateway.marvel.com/v1/public")])

\* os.environ: a variable is unset (None), empty, or set
Environments ==
    {[COMIC_VINE_API_KEY |-> Key, MARVEL_PUBLIC_KEY |-> Key, MARVEL_PRIVATE_KEY |-> Key],
     [COMIC_VINE_API_KEY |-> None, MARVEL_PUBLIC_KEY |-> Key, MARVEL_PRIVATE_KEY |-> EmptyStr],
     [COMIC_VINE_API_KEY |-> EmptyStr, MARVEL_PUBLIC_KEY |-> None, MARVEL_PRIVATE_KEY |-> Key]}

ServerComicClient_Unguarded(env) ==
    Dict([api_key |-> env.COMIC_VINE_API_KEY,
          base_url |-> Lit("https://comicvine.gamespot.com/api"),
          headers |-> Dict([agent |-> Lit("Comic Cover Generator/1.0")])])

\* server.py module level: comic_client = None, replaced when the key is set
ServerComicClient(env) ==
    IF Truthy(env.COMIC_VINE_API_KEY) THEN ComicVineClient(env.COMIC_VINE_API_KEY) ELSE None

(***************************************************************************)
(* State.  Invocations are the concurrent runs of a handler; each has its  *)
(* own locals.  The clients are shared.                                    *)
(***************************************************************************)
Invocations == {1, 2}
Handlers == {"random_comic", "random_anime", "marvel_main"}

ClientOf(h) ==
    CASE h = "random_comic" -> "comic"
      [] h = "random_anime" -> "jikan"
      [] h = "marvel_main"  -> "marvel"

VARIABLES
    environ,        \* the environment variables
    clients,        \* client objects: comic_client, anime_client, and main()'s MarvelClient
    handler,        \* which entry point each invocation runs
    pc,             \* position of each invocation
    attempt,        \* the handler's local "attempt"
    client_attempt, \* the loop variable "attempt" of the running client call
    random_year,    \* MarvelClient.get_random_comic's random_year
    result,         \* what the last client call returned or raised
    response,       \* what the handler returned to its caller
    logged,         \* the exception text the handler logged
    calls,          \* history: client calls started by the invocation
    skipped,        \* history: samples that only advanced the loop
    trace,          \* history: the requests and sleeps of the client call at hand
    total_requests, \* history: HTTP requests sent by the invocation
    total_sleeps,   \* history: sleeps performed by the invocation
    params,         \* the request parameters the client call built before its loop
    elapsed,        \* history: seconds slept since the client call at hand began
    sent,           \* history: parameters and time of each request of the call at hand
    probe           \* a single sample followed from payload to normalized result

vars == <<environ, clients, handler, pc, attempt, client_attempt, random_year, result,
          response, logged, calls, skipped, trace, total_requests, total_sleeps,
          params, elapsed, sent, probe>>

\* time.time() when a client call begins; later readings add the time slept
CallStart == 1700000000

\* hashlib.md5(...).hexdigest(), kept symbolic
Md5(input) == Str(<<"md5(">> \o input \o <<")">>)

\* MarvelClient._generate_auth_params at time t
GenerateAuthParams(client, t) ==
    LET ts == Lit(ToString(t))
    IN [ts |-> ts, apikey |-> client.d.public_key,
        hash |-> Md5(ts.s \o client.d.private_key.s \o client.d.public_key.s)]

\* the params dict each get_random_* builds before its retry loop (the
\* fixed entries and the random offsets are left out)
BuildParams(c, client, t, year) ==
    CASE c = "comic"  -> [api_key |-> client.d.api_key]
      [] c = "jikan"  -> [none |-> TRUE]
      [] c = "marvel" -> [auth |-> GenerateAuthParams(client, t), dateRange |-> year]

NoParams == [none |-> TRUE]
NoProbe == [stage |-> "off"]

\* events of a client call
Requested(r) == [e |-> "request", r |-> r]
Slept(delay) == [e |-> "sleep", delay |-> delay]

RECURSIVE RequestsOf(_)
RequestsOf(tr) ==
    IF tr = <<>> THEN <<>>
    ELSE IF Head(tr).e = "request" THEN <<Head(tr).r>> \o RequestsOf(Tail(tr))
    ELSE RequestsOf(Tail(tr))

RECURSIVE DelaysOf(_)
DelaysOf(tr) ==
    IF tr = <<>> THEN <<>>
    ELSE IF Head(tr).e = "sleep" THEN <<Head(tr).delay>> \o DelaysOf(Tail(tr))
    ELSE DelaysOf(Tail(tr))

NoResponse == [status |-> 0, body |-> None]
NoResult == [act |-> "none"]

InitCommon(started) ==
    /\ environ \in Environments
    /\ clients = [comic |-> ServerComicClient(environ), jikan |-> JikanClient, marvel |-> None]
    /\ handler \in [Invocations -> Handlers]
    /\ \A i \in Invocations \ started : handler[i] = "random_anime"
    /\ pc = [i \in Invocations |-> IF i \in started THEN "start" ELSE "idle"]
    /\ attempt = [i \in Invocations |-> 0]
    /\ client_attempt = [i \in Invocations |-> 0]
    /\ random_year = [i \in Invocations |-> MIN_COMIC_YEAR]
    /\ result = [i \in Invocations |-> NoResult]
    /\ response = [i \in Invocations |-> NoResponse]
    /\ logged = [i \in Invocations |-> None]
    /\ calls = [i \in Invocations |-> 0]
    /\ skipped = [i \in Invocations |-> 0]
    /\ trace = [i \in Invocations |-> <<>>]
    /\ total_requests = [i \in Invocations |-> 0]
    /\ total_sleeps = [i \in Invocations |-> 0]
    /\ params = [i \in Invocations |-> NoParams]
    /\ elapsed = [i \in Invocations |-> 0]
    /\ sent = [i \in Invocations |-> <<>>]

\* one request is served: invocation 1 runs, the other stays idle
Init == InitCommon({1}) /\ probe = NoProbe

(***************************************************************************)
(* The handlers' responses.                                                *)
(***************************************************************************)
Json(status, error, message) ==
    [status |-> status, body |-> Dict([error |-> Lit(error), message |-> Lit(message)])]

\* str(e)
ExcText(exc) == <<exc.text>> \o (IF exc.detail = None THEN <<>> ELSE Format(exc.detail))

NotAvailable ==
    Json(503, "Comic mode not available",
         "COMIC_VINE_API_KEY not configured. Get your API key from https://comicvine.gamespot.com/api/")

NoValidItemFound(h) ==
    IF h = "random_comic"
    THEN Json(404, "Could not find a comic with a valid cover image", "Please try again")
    ELSE Json(404, "Could not find an anime with a valid cover image", "Please try again")

FailureResponse_Leaky(h, exc) ==
    [status |-> 500,
     body |-> Dict([error |-> Lit("Failed to fetch"), message |-> Str(ExcText(exc))])]

\* the body of "except Exception as e" in the two handlers
FailureResponse(h, exc) ==
    IF h = "random_comic"
    THEN Json(500, "Failed to fetch comic",
              "An error occurred while fetching the comic. Please try again later.")
    ELSE Json(500, "Failed to fetch anime",
              "An error occurred while fetching the anime. Please try again later.")

\* logger.error(f'Error fetching comic: {str(e)}')
FailureLog(h, exc) ==
    IF h = "random_comic"
    THEN Str(<<"Error fetching comic: ">> \o ExcText(exc))
    ELSE Str(<<"Error fetching anime: ">> \o ExcText(exc))

Respond(resp, log) == [next |-> "respond", response |-> resp, logged |-> log]
Continue == [next |-> "continue"]
Fail_Resample(h, exc) == Continue

Fail(h, exc) == Respond(FailureResponse(h, exc), FailureLog(h, exc))

\* random_comic builds a title for its log line before it formats the item
ComicLogTitle(comic) ==
    LET volume == Get(comic, "volume", EmptyDict)
    IN IF Truthy(volume) THEN Get(volume, "name", EmptyStr) ELSE EmptyStr

is_valid(h, item) == IF h = "random_comic" THEN is_valid_comic(item) ELSE is_valid_anime(item)

format_response_DropsYear(h, item, year) ==
    IF h = "random_comic" THEN format_comic_response(item, None)
    ELSE format_anime_response(item, None)

format_response(h, item, year) ==
    IF h = "random_comic"
    THEN IF IsExc(ComicLogTitle(item)) THEN ComicLogTitle(item)
         ELSE format_comic_response(item, year)
    ELSE format_anime_response(item, year)

\* The body of the while loop after the client call: res is what the call
\* returned or raised.
HandleSample(h, res) ==
    IF res.act = "raise" THEN Fail(h, res.exc)
    ELSE LET valid == is_valid(h, res.item)
         IN IF IsExc(valid) THEN Fail(h, valid)
            ELSE IF valid.b
                 THEN LET body == format_response(h, res.item, res.year)
                      IN IF IsExc(body) THEN Fail(h, body)
                         ELSE Respond([status |-> 200, body |-> body], None)
                 ELSE Continue

MoreSamples_OneTooMany(n) == n <= MAX_RETRY_ATTEMPTS

\* while attempt < MAX_RETRY_ATTEMPTS
MoreSamples(n) == n < MAX_RETRY_ATTEMPTS

\* for attempt in range(MAX_RETRIES): is there a next iteration
LoopContinues(c, next) == next < MAX_RETRIES(c)

\* what main() of random_comic.py prints after the call
MarvelMainOutput(res) ==
    IF res.act = "raise"
    THEN IF res.exc.type = "MarvelAPIError"
         THEN List(<<Str(<<"Error fetching comic: ">> \o ExcText(res.exc))>>)
         ELSE List(<<Str(<<"Unexpected error: ">> \o ExcText(res.exc))>>)
    ELSE IF ~Truthy(res.item)
         THEN List(<<Str(<<"No comics found for the year ">> \o Format(res.year))>>)
    ELSE LET title == Get(res.item, "title", Lit("Unknown Title"))
             thumbnail == Get(res.item, "thumbnail", EmptyDict)
             path == Get(thumbnail, "path", None)
         IN IF IsExc(title) \/ IsExc(thumbnail) \/ IsExc(path)
            THEN List(<<Str(<<"Unexpected error: ">> \o ExcText(AttributeError))>>)
            ELSE List(<<Str(<<"Random Comic from ">> \o Format(res.year)),
                        Str(<<"Title: ">> \o Format(title)),
                        Str(<<"Cover URL: ">> \o Format(path) \o <<"/detail.">>
                            \o Format(Get(thumbnail, "extension", None)))>>)

(***************************************************************************)
(* Actions.                                                                *)
(***************************************************************************)
\* entering get_random_*: the draws and the request parameters before the loop
BeginCall(i, client) ==
    /\ pc' = [pc EXCEPT ![i] = "request"]
    /\ client_attempt' = [client_attempt EXCEPT ![i] = 0]
    /\ \E y \in IF handler[i] = "marvel_main"
                THEN MIN_COMIC_YEAR..MAX_COMIC_YEAR ELSE {random_year[i]} :
          /\ random_year' = [random_year EXCEPT ![i] = y]
          /\ params' = [params EXCEPT ![i] =
                           BuildParams(ClientOf(handler[i]), client, CallStart, y)]
    /\ calls' = [calls EXCEPT ![i] = @ + 1]
    /\ trace' = [trace EXCEPT ![i] = <<>>]
    /\ elapsed' = [elapsed EXCEPT ![i] = 0]
    /\ sent' = [sent EXCEPT ![i] = <<>>]

Finish(i, resp, log) ==
    /\ pc' = [pc EXCEPT ![i] = "done"]
    /\ response' = [response EXCEPT ![i] = resp]
    /\ logged' = [logged EXCEPT ![i] = log]

\* random_comic up to the loop: the check for a configured client
EnterRandomComic(i) ==
    /\ pc[i] = "start" /\ handler[i] = "random_comic"
    /\ IF ~Truthy(clients.comic)
       THEN /\ Finish(i, NotAvailable, None)
            /\ UNCHANGED attempt
       ELSE /\ attempt' = [attempt EXCEPT ![i] = 0]
            /\ pc' = [pc EXCEPT ![i] = "loop"]
            /\ UNCHANGED <<response, logged>>
    /\ UNCHANGED <<probe, environ, clients, handler, client_attempt, random_year, result,
                   calls, skipped, trace, params, elapsed, sent, total_requests, total_sleeps>>

\* random_anime up to the loop
EnterRandomAnime(i) ==
    /\ pc[i] = "start" /\ handler[i] = "random_anime"
    /\ attempt' = [attempt EXCEPT ![i] = 0]
    /\ pc' = [pc EXCEPT ![i] = "loop"]
    /\ UNCHANGED <<probe, environ, clients, handler, client_attempt, random_year, result,
                   response, logged, calls, skipped, trace, params, elapsed, sent,
                   total_requests, total_sleeps>>

\* main() of random_comic.py up to the client call
EnterMarvelMain(i) ==
    /\ pc[i] = "start" /\ handler[i] = "marvel_main"
    /\ IF ~Truthy(environ.MARVEL_PUBLIC_KEY) \/ ~Truthy(environ.MARVEL_PRIVATE_KEY)
       THEN /\ Finish(i, [status |-> 0, body |-> List(<<Lit("Error: MARVEL_PUBLIC_KEY and MARVEL_PRIVATE_KEY environment variables are required")>>)], None)
            /\ UNCHANGED <<clients, client_attempt, random_year, calls, trace, params, elapsed, sent>>
       ELSE /\ clients' = [clients EXCEPT !.marvel =
                              MarvelClient(environ.MARVEL_PUBLIC_KEY, environ.MARVEL_PRIVATE_KEY)]
            /\ BeginCall(i, MarvelClient(environ.MARVEL_PUBLIC_KEY, environ.MARVEL_PRIVATE_KEY))
            /\ UNCHANGED <<response, logged>>
    /\ UNCHANGED <<probe, environ, handler, attempt, result, skipped, total_requests, total_sleeps>>

Incremented_Shared(counter, i) == [j \in DOMAIN counter |-> counter[j] + 1]

\* attempt += 1 on the handler's local variable: the invocation's own counter
Incremented(counter, i) == [counter EXCEPT ![i] = @ + 1]

\* the head of the handlers' while loop: another sample, or give up
Sample(i) ==
    /\ pc[i] = "loop"
    /\ IF MoreSamples(attempt[i])
       THEN /\ attempt' = Incremented(attempt, i)
            /\ BeginCall(i, clients[ClientOf(handler[i])])
            /\ UNCHANGED <<response, logged>>
       ELSE /\ Finish(i, NoValidItemFound(handler[i]), None)
            /\ UNCHANGED <<attempt, client_attempt, random_year, calls, trace, params, elapsed, sent>>
    /\ UNCHANGED <<probe, environ, clients, handler, result, skipped, total_requests, total_sleeps>>

\* one iteration of the client's retry loop: the request and what follows it
RequestFrom(i, responses) ==
    /\ pc[i] = "request"
    /\ \E r \in responses :
         LET c == ClientOf(handler[i])
             o == Attempt(c, client_attempt[i], r, random_year[i])
         IN /\ total_requests' = [total_requests EXCEPT ![i] = @ + 1]
            /\ sent' = [sent EXCEPT ![i] =
                           Append(@, [params |-> params[i], at |-> CallStart + elapsed[i]])]
            /\ elapsed' = [elapsed EXCEPT ![i] = IF o.act = "retry" THEN @ + o.delay ELSE @]
            /\ IF o.act = "retry"
               THEN /\ trace' = [trace EXCEPT ![i] = @ \o <<Requested(r), Slept(o.delay)>>]
                    /\ total_sleeps' = [total_sleeps EXCEPT ![i] = @ + 1]
                    /\ client_attempt' = [client_attempt EXCEPT ![i] = @ + 1]
                    /\ IF LoopContinues(c, client_attempt[i] + 1)
                       THEN UNCHANGED <<pc, result>>
                       ELSE /\ pc' = [pc EXCEPT ![i] = "returned"]
                            /\ result' = [result EXCEPT ![i] =
                                  Raise(Raised(APIError(c), "Unexpected error: maximum retries reached", None))]
               ELSE /\ pc' = [pc EXCEPT ![i] = "returned"]
                    /\ result' = [result EXCEPT ![i] = o]
                    /\ trace' = [trace EXCEPT ![i] = Append(@, Requested(r))]
                    /\ UNCHANGED <<total_sleeps, client_attempt>>
    /\ UNCHANGED <<probe, environ, clients, handler, attempt, random_year, response, logged,
                   calls, skipped, params>>

Request(i) == RequestFrom(i, Responses(ClientOf(handler[i])))

\* the rest of the handlers' loop body, and the except clause around it
Receive(i) ==
    /\ pc[i] = "returned" /\ handler[i] \in {"random_comic", "random_anime"}
    /\ LET step == HandleSample(handler[i], result[i])
       IN IF step.next = "continue"
          THEN /\ pc' = [pc EXCEPT ![i] = "loop"]
               /\ skipped' = [skipped EXCEPT ![i] = @ + 1]
               /\ trace' = [trace EXCEPT ![i] = <<>>]
               /\ elapsed' = [elapsed EXCEPT ![i] = 0]
               /\ sent' = [sent EXCEPT ![i] = <<>>]
               /\ UNCHANGED <<response, logged>>
          ELSE /\ Finish(i, step.response, step.logged)
               /\ UNCHANGED <<skipped, trace, elapsed, sent>>
    /\ UNCHANGED <<probe, environ, clients, handler, attempt, client_attempt, random_year, result,
                   calls, total_requests, total_sleeps, params>>

\* main() of random_comic.py after the client call
MarvelMainReport(i) ==
    /\ pc[i] = "returned" /\ handler[i] = "marvel_main"
    /\ Finish(i, [status |-> 0, body |-> MarvelMainOutput(result[i])], None)
    /\ UNCHANGED <<probe, environ, clients, handler, attempt, client_attempt, random_year, result,
                   calls, skipped, trace, params, elapsed, sent, total_requests, total_sleeps>>

Next ==
    \E i \in Invocations :
        \/ EnterRandomComic(i)
        \/ EnterRandomAnime(i)
        \/ EnterMarvelMain(i)
        \/ Sample(i)
        \/ Request(i)
        \/ Receive(i)
        \/ MarvelMainReport(i)

Spec == Init /\ [][Next]_vars

(***************************************************************************)
(* One request served to its end, with one provider answer of each kind    *)
(* (the retry loop only looks at the kind).  Every step ends: requests.get *)
(* has a timeout, time.sleep returns, and the rest is straight-line code;  *)
(* so a running invocation keeps taking steps.                             *)
(***************************************************************************)
KindResponses(c) ==
    {Timeout, NetworkError(Lit("Connection refused")), HTTPError(429), HTTPError(500),
     BadJSON(FALSE)}
    \cup (IF c = "comic"
          THEN {OK(Dict([error |-> Lit("OK"), results |-> List(<<item>>)])) :
                   item \in {ComicGood, ComicNoImage, ComicImageNotDict}}
               \cup {OK(Dict([error |-> Lit("OK"), results |-> EmptyList]))}
          ELSE {OK(Dict([data |-> item])) : item \in {AnimeGood, AnimeNoImages, AnimeJpgNull}}
               \cup {OK(Dict([data |-> None]))})

InitServed == Init /\ handler[1] # "marvel_main"

ServedRequest(i) == RequestFrom(i, KindResponses(ClientOf(handler[i])))

NextServed ==
    \E i \in Invocations :
        \/ EnterRandomComic(i)
        \/ EnterRandomAnime(i)
        \/ Sample(i)
        \/ ServedRequest(i)
        \/ Receive(i)

FairSpec == InitServed /\ [][NextServed]_vars /\ WF_vars(NextServed)

(***************************************************************************)
(* Two requests served at the same time by the threads of the server, on   *)
(* the same handler and so on the same client object.  The provider's      *)
(* answers are one of each kind, and each request is made to wait for a    *)
(* retry at most MaxConcurrentSleeps times.                                *)
(***************************************************************************)
MaxConcurrentSleeps == 2

ConcurrentResponses(c, slept) ==
    {HTTPError(500)}
    \cup (IF slept < MaxConcurrentSleeps THEN {Timeout} ELSE {})
    \cup (IF c = "comic"
          THEN {OK(Dict([error |-> Lit("OK"), results |-> List(<<item>>)])) :
                   item \in {ComicGood, ComicNoImage}}
          ELSE {OK(Dict([data |-> item])) : item \in {AnimeGood, AnimeNoImages}})

InitConcurrent ==
    /\ InitCommon(Invocations)
    /\ probe = NoProbe
    /\ \A k \in DOMAIN environ : Truthy(environ[k])
    /\ \A i \in Invocations : handler[i] = handler[1] /\ handler[i] # "marvel_main"

ConcurrentRequest(i) ==
    RequestFrom(i, ConcurrentResponses(ClientOf(handler[i]), total_sleeps[i]))

NextConcurrent ==
    \E i \in Invocations :
        \/ EnterRandomComic(i)
        \/ EnterRandomAnime(i)
        \/ Sample(i)
        \/ ConcurrentRequest(i)
        \/ Receive(i)

SpecConcurrent == InitConcurrent /\ [][NextConcurrent]_vars

(***************************************************************************)
(* One sample on its own: a 200 payload is parsed by the client, the       *)
(* handler's filter is applied to the returned item, and an accepted item  *)
(* is normalized.                                                          *)
(***************************************************************************)
HandlerOf(c) == IF c = "comic" THEN "random_comic" ELSE "random_anime"

ProbeStart(c, body, year) ==
    [stage |-> "body", c |-> c, body |-> body, random_year |-> year,
     fetched |-> NoResult, valid |-> None, out |-> None, step |-> Continue]

InitProbe ==
    /\ InitCommon({})
    /\ \A k \in DOMAIN environ : Truthy(environ[k])
    /\ probe \in {ProbeStart(c, body, MIN_COMIC_YEAR) :
                     c \in {"comic"}, body \in ProbeBodies("comic")}
             \cup {ProbeStart(c, body, MIN_COMIC_YEAR) :
                     c \in {"jikan"}, body \in ProbeBodies("jikan")}
             \cup {ProbeStart(c, body, year) :
                     c \in {"marvel"}, body \in ProbeBodies("marvel"),
                     year \in MIN_COMIC_YEAR..MAX_COMIC_YEAR}

MainUnchanged ==
    UNCHANGED <<environ, clients, handler, pc, attempt, client_attempt, random_year, result,
                response, logged, calls, skipped, trace, total_requests, total_sleeps,
                params, elapsed, sent>>

\* the client's try block on the decoded payload
ProbeFetch ==
    /\ probe.stage = "body"
    /\ probe' = [probe EXCEPT !.stage = "fetched",
                              !.fetched = Attempt(probe.c, 0, OK(probe.body), probe.random_year)]
    /\ MainUnchanged

\* if is_valid_comic(comic) / if is_valid_anime(anime)
ProbeValidate ==
    /\ probe.stage = "fetched"
    /\ probe.c \in {"comic", "jikan"}
    /\ probe.fetched.act = "return"
    /\ probe' = [probe EXCEPT !.stage = "validated",
                              !.valid = is_valid(HandlerOf(probe.c), probe.fetched.item)]
    /\ MainUnchanged

\* format_comic_response(comic, year) / format_anime_response(anime, year)
ProbeNormalize ==
    /\ probe.stage = "validated"
    /\ probe.valid = Bool(TRUE)
    /\ probe' = [probe EXCEPT !.stage = "normalized",
                              !.out = IF probe.c = "comic"
                                      THEN format_comic_response(probe.fetched.item, probe.fetched.year)
                                      ELSE format_anime_response(probe.fetched.item, probe.fetched.year)]
    /\ MainUnchanged

\* what the handler does with the sample: respond, or go on to the next one
ProbeRespond ==
    /\ probe.c \in {"comic", "jikan"}
    /\ \/ probe.stage = "fetched" /\ probe.fetched.act = "raise"
       \/ probe.stage = "validated" /\ probe.valid # Bool(TRUE)
       \/ probe.stage = "normalized"
    /\ probe' = [probe EXCEPT !.stage = "handled",
                              !.step = HandleSample(HandlerOf(probe.c), probe.fetched)]
    /\ MainUnchanged

NextProbe == ProbeFetch \/ ProbeValidate \/ ProbeNormalize \/ ProbeRespond

SpecProbe == InitProbe /\ [][NextProbe]_vars

(***************************************************************************)
(* Properties.                                                             *)
(***************************************************************************)
Orchestrated(i) == handler[i] \in {"random_comic", "random_anime"}

\* the handler got past its availability check and ran the sampling loop
Sampling(i) == Orchestrated(i) /\ pc[i] # "idle" /\ Truthy(clients[ClientOf(handler[i])])

\* C1: when every sample was absent or rejected by the validity filter and no
\* client call failed, the handler has made exactly MAX_RETRY_ATTEMPTS client
\* calls when it finishes, and it finishes with the 404 response; it never
\* makes more than MAX_RETRY_ATTEMPTS calls.
C1_ExactlyMaxSamples ==
    \A i \in Invocations :
        Sampling(i) =>
            /\ calls[i] <= MAX_RETRY_ATTEMPTS
            /\ (pc[i] = "done" /\ skipped[i] = calls[i]) =>
                   /\ calls[i] = MAX_RETRY_ATTEMPTS
                   /\ response[i] = NoValidItemFound(handler[i])
            /\ response[i].status = 404 =>
                   /\ pc[i] = "done"
                   /\ calls[i] = MAX_RETRY_ATTEMPTS
                   /\ skipped[i] = MAX_RETRY_ATTEMPTS

C1_Witness ==
    \E i \in Invocations :
        /\ handler[i] = "random_comic" /\ pc[i] = "done"
        /\ response[i].status = 404
        /\ calls[i] = MAX_RETRY_ATTEMPTS /\ skipped[i] = calls[i]

\* C2: once a client call of a handler has raised, the handler starts no
\* further client call, and the only step it takes is to finish with the 500
\* response.
C2_AbortOnClientFailure ==
    [][\A i \in Invocations :
          (Orchestrated(i) /\ pc[i] = "returned" /\ result[i].act = "raise") =>
              /\ calls'[i] = calls[i]
              /\ total_requests'[i] = total_requests[i]
              /\ pc'[i] \in {"returned", "done"}
              /\ pc'[i] = "done" => response'[i].status = 500]_vars

C2_Witness ==
    \E i \in Invocations :
        /\ handler[i] = "random_anime" /\ pc[i] = "done"
        /\ result[i].act = "raise" /\ response[i].status = 500
        /\ calls[i] = 3 /\ skipped[i] = 2

\* C3: a sample that is absent or rejected only advances the loop, so a
\* finished handler has the 500 response only if a client call raised, the
\* 404 response only if all MAX_RETRY_ATTEMPTS samples were skipped, and the
\* 200 response only if the last sample passed the validity filter.
C3_OutcomeCauses ==
    \A i \in Invocations :
        (Sampling(i) /\ pc[i] = "done") =>
            /\ response[i].status = 500 => result[i].act = "raise"
            /\ response[i].status = 404 => skipped[i] = MAX_RETRY_ATTEMPTS
            /\ response[i].status = 200 =>
                   /\ result[i].act = "return"
                   /\ is_valid(handler[i], result[i].item) = Bool(TRUE)

\* the client call of invocation i has ended and its result is at hand
CallEnded(i) == pc[i] = "returned"

Client(i) == ClientOf(handler[i])

TimeoutFailure(c) ==
    Raise(Raised(APIError(c), "Request timed out after multiple attempts", None))
ConnectFailure(c, text) ==
    Raise(Raised(APIError(c),
                 CASE c = "comic"  -> "Failed to connect to Comic Vine API: "
                   [] c = "jikan"  -> "Failed to connect to Jikan API: "
                   [] c = "marvel" -> "Failed to connect to Marvel API: ",
                 text))
RateLimitFailure(c) ==
    Raise(Raised(APIError(c), "Rate limit exceeded. Please wait before making more requests.", None))
GenericFailure(c) ==
    Raise(Raised(APIError(c), "Unexpected error: maximum retries reached", None))

\* a well-formed payload of each provider and what the client returns for it
GoodBody(c) ==
    CASE c = "comic"  -> Dict([error |-> Lit("OK"), results |-> List(<<ComicGood>>)])
      [] c = "jikan"  -> Dict([data |-> AnimeGood])
      [] c = "marvel" -> Dict([data |-> Dict([results |-> List(<<MarvelGood>>)])])
GoodReturn(c, y) ==
    CASE c = "comic"  -> Return(Num(1989), ComicGood)
      [] c = "jikan"  -> Return(Num(1998), AnimeGood)
      [] c = "marvel" -> Return(Num(y), MarvelGood)

\* C4: with MAX_RETRIES = 3, a call whose requests time out twice and then
\* succeed returns the parsed result after exactly two sleeps of RETRY_DELAY,
\* and a call all of whose requests time out makes exactly 3 requests, sleeps
\* twice, and raises the timeout failure.
C4_TimeoutRetries ==
    \A i \in Invocations :
        CallEnded(i) =>
            LET c == Client(i)
                d == RETRY_DELAY(c)
                rs == RequestsOf(trace[i])
            IN /\ (Len(rs) >= 3 /\ rs[1] = Timeout /\ rs[2] = Timeout /\ rs[3].k = "ok") =>
                      /\ trace[i] = <<Requested(Timeout), Slept(d), Requested(Timeout),
                                      Slept(d), Requested(rs[3])>>
                      /\ result[i] \notin {TimeoutFailure(c), GenericFailure(c)}
                      /\ rs[3].body = GoodBody(c) => result[i] = GoodReturn(c, random_year[i])
               /\ (\A n \in 1..Len(rs) : rs[n] = Timeout) =>
                      /\ Len(rs) = 3
                      /\ DelaysOf(trace[i]) = <<d, d>>
                      /\ result[i] = TimeoutFailure(c)

C4_Witness ==
    \E i \in Invocations :
        /\ CallEnded(i) /\ handler[i] = "marvel_main"
        /\ RequestsOf(trace[i]) = <<Timeout, Timeout, OK(GoodBody("marvel"))>>
        /\ result[i].act = "return"

\* responses after which each client sleeps and tries again
Retryable(c, r) ==
    \/ r.k \in {"timeout", "neterr"}
    \/ r.k = "badjson" /\ r.asRequestException
    \/ c = "jikan" /\ r = HTTPError(429)

\* the failure each retryable response stands for
ClassifiedFailure(c, r) ==
    CASE r.k = "timeout" -> TimeoutFailure(c)
      [] r.k = "neterr"  -> ConnectFailure(c, r.text)
      [] r.k = "badjson" -> ConnectFailure(c, Lit("Expecting value"))
      [] r.k = "http"    -> RateLimitFailure(c)

\* C5: when all MAX_RETRIES requests of a call met retryable failures, the
\* call raises the failure of the last request, never the generic "maximum
\* retries reached" failure.
C5_LastFailureReported ==
    \A i \in Invocations :
        CallEnded(i) =>
            LET c == Client(i)
                rs == RequestsOf(trace[i])
            IN (\A n \in 1..Len(rs) : Retryable(c, rs[n])) =>
                   /\ Len(rs) = MAX_RETRIES(c)
                   /\ result[i] = ClassifiedFailure(c, rs[Len(rs)])
                   /\ result[i] # GenericFailure(c)

C5_Witness ==
    \E i \in Invocations :
        /\ CallEnded(i) /\ handler[i] = "random_comic"
        /\ RequestsOf(trace[i]) = <<Timeout, Timeout, NetworkError(Lit("Connection refused"))>>
        /\ result[i] = ConnectFailure("comic", Lit("Connection refused"))

\* C6: in the trace of a client call every sleep follows a request that met a
\* retryable failure and is followed by another request of the same call (or
\* that request is the call's next step); a call sleeps at most
\* MAX_RETRIES - 1 times.
C6_SleepsOnlyBetweenAttempts ==
    \A i \in Invocations :
        LET c == Client(i)
            tr == trace[i]
        IN /\ Len(DelaysOf(tr)) <= MAX_RETRIES(c) - 1
           /\ Len(RequestsOf(tr)) <= MAX_RETRIES(c)
           /\ \A n \in 1..Len(tr) :
                  tr[n].e = "sleep" =>
                      /\ n > 1 /\ tr[n - 1].e = "request" /\ Retryable(c, tr[n - 1].r)
                      /\ IF n < Len(tr) THEN tr[n + 1].e = "request" ELSE pc[i] = "request"

C6_Witness ==
    \E i \in Invocations :
        /\ CallEnded(i) /\ handler[i] = "random_anime"
        /\ Len(DelaysOf(trace[i])) = JIKAN_MAX_RETRIES - 1
        /\ trace[i][Len(trace[i])] = Requested(HTTPError(429))

HttpFailure(c, status) ==
    Raise(Raised(APIError(c),
                 CASE c = "comic"  -> "Comic Vine API returned error: "
                   [] c = "jikan"  -> "Jikan API returned error: "
                   [] c = "marvel" -> "Marvel API returned error: ",
                 Num(status)))

\* what the claim of C7 says of the calls of client c
RateLimitRetried(i, c) ==
    (Client(i) = c /\ pc[i] \in {"request", "returned"}) =>
        LET tr == trace[i]
        IN \A n \in 1..Len(tr) :
               tr[n] = Requested(HTTPError(429)) =>
                   IF n < Len(tr)
                   THEN tr[n + 1] = Slept(RETRY_DELAY(c) * 2)
                   ELSE /\ CallEnded(i)
                        /\ Len(RequestsOf(tr)) = MAX_RETRIES(c)
                        /\ result[i] = RateLimitFailure(c)

\* C7 as claimed: in each of the three clients a 429 response is retried
\* after a sleep of 2 * RETRY_DELAY, and when the attempts are used up the
\* call raises the rate-limit failure.
C7_RateLimitRetriedEverywhere ==
    \A i \in Invocations : \A c \in Clients : RateLimitRetried(i, c)

\* C7, amended: the Jikan client retries a 429 response after a sleep of
\* 2 * RETRY_DELAY, up to MAX_RETRIES - 1 times, and then raises the
\* rate-limit failure; in the Comic Vine and Marvel clients a 429 response
\* ends the call on that attempt with the HTTP-error failure, without a sleep.
C7_RateLimitRetriedByJikan ==
    \A i \in Invocations :
        /\ RateLimitRetried(i, "jikan")
        /\ (Client(i) \in {"comic", "marvel"} /\ pc[i] \in {"request", "returned"}) =>
               \A n \in 1..Len(trace[i]) :
                   trace[i][n] = Requested(HTTPError(429)) =>
                       /\ n = Len(trace[i])
                       /\ CallEnded(i)
                       /\ result[i] = HttpFailure(Client(i), 429)

C7_Witness ==
    \E i \in Invocations :
        /\ CallEnded(i) /\ handler[i] = "random_anime"
        /\ trace[i] = <<Requested(HTTPError(429)), Slept(JIKAN_RETRY_DELAY * 2),
                        Requested(Timeout), Slept(JIKAN_RETRY_DELAY),
                        Requested(HTTPError(429))>>
        /\ result[i] = RateLimitFailure("jikan")

\* C8: in the Comic Vine client a 420 response is the last event of its
\* call, on whatever attempt it arrives: the call raises the rate-limit
\* failure without a further sleep or request.
C8_TerminalRateLimit ==
    \A i \in Invocations :
        (Client(i) = "comic" /\ pc[i] \in {"request", "returned"}) =>
            \A n \in 1..Len(trace[i]) :
                trace[i][n] = Requested(HTTPError(420)) =>
                    /\ n = Len(trace[i])
                    /\ CallEnded(i)
                    /\ result[i] = RateLimitFailure("comic")

C8_Witness ==
    \E i \in Invocations :
        /\ CallEnded(i) /\ handler[i] = "random_comic"
        /\ trace[i] = <<Requested(HTTPError(420))>>
        /\ client_attempt[i] = 0 /\ attempt[i] = 2

\* a Comic Vine envelope whose status field is not the "OK" sentinel
ErrorEnvelope(r) ==
    r.k = "ok" /\ r.body.t = "dict" /\ Get(r.body, "error", None) # Lit("OK")

\* C9: a Comic Vine response carrying an error envelope is the last event of
\* its call; the call raises ComicVineAPIError "API returned error" (it does
\* not return a found or absent item), and the handler finishes with the 500
\* response without another sample.
C9_ErrorEnvelopeFails ==
    \A i \in Invocations :
        (Client(i) = "comic" /\ pc[i] \in {"request", "returned", "done"}) =>
            \A n \in 1..Len(trace[i]) :
                (trace[i][n].e = "request" /\ ErrorEnvelope(trace[i][n].r)) =>
                    /\ n = Len(trace[i])
                    /\ pc[i] \in {"returned", "done"}
                    /\ result[i].act = "raise"
                    /\ result[i].exc.type = "ComicVineAPIError"
                    /\ result[i].exc.text = "API returned error: "
                    /\ pc[i] = "done" => response[i].status = 500

C9_Witness ==
    \E i \in Invocations :
        /\ pc[i] = "done" /\ handler[i] = "random_comic"
        /\ trace[i] = <<Requested(OK(Dict([error |-> Lit("Invalid API Key"),
                                           results |-> EmptyList])))>>
        /\ response[i].status = 500 /\ attempt[i] = 1

\* the fixed failure body of each handler
SafeFailure(h) ==
    [status |-> 500,
     body |-> Dict([error |-> Lit(IF h = "random_comic" THEN "Failed to fetch comic"
                                  ELSE "Failed to fetch anime"),
                    message |-> Lit(IF h = "random_comic"
                                    THEN "An error occurred while fetching the comic. Please try again later."
                                    ELSE "An error occurred while fetching the anime. Please try again later.")])]

\* C10: the 500 response of a handler is a fixed status and body that depend
\* on the handler alone, whatever exception caused it; the text of that
\* exception is in the handler's log line.
C10_FailureResponseIsFixed ==
    \A i \in Invocations :
        (Orchestrated(i) /\ pc[i] = "done" /\ response[i].status = 500) =>
            /\ response[i] = SafeFailure(handler[i])
            /\ result[i].act = "raise" =>
                   /\ logged[i].t = "str"
                   /\ Tail(logged[i].s) = ExcText(result[i].exc)

C10_Witness ==
    \E i \in Invocations :
        /\ pc[i] = "done" /\ handler[i] = "random_comic"
        /\ response[i] = SafeFailure("random_comic")
        /\ result[i] = ConnectFailure("comic", Lit("Max retries exceeded with url: /issues/?api_key=k"))


(***************************************************************************)
(* Filter and normalizer, on one sample.                                   *)
(***************************************************************************)
NonEmpty(v) == ~IsExc(v) /\ v # Absent /\ Truthy(v)

Item == probe.fetched.item
Validated == probe.stage \in {"validated", "normalized", "handled"} /\ probe.fetched.act = "return"
Accepted == Validated /\ probe.valid = Bool(TRUE)
Normalized == Accepted /\ probe.stage \in {"normalized", "handled"} /\ ~IsExc(probe.out)
Succeeded == probe.stage = "handled" /\ probe.step.next = "respond"
             /\ probe.step.response.status = 200

\* the cover-url selection of the provider's normalizer
CoverUrlOf(c, item) == IF c = "comic" THEN ComicCoverUrl(item) ELSE AnimeCoverUrl(item)
CoverOf(body) == body.d.comic.d.coverUrl

\* C11: for every item its provider's validity filter accepts, the cover-url
\* selection of that provider's normalizer yields a non-empty value, which is
\* the coverUrl of the result the normalizer returns; every 200 response of a
\* handler carries a non-empty coverUrl.  (format_comic_response can raise
\* while it builds the title, before it gets to the cover url; the handler
\* then answers 500, and no coverUrl is produced at all.)
C11_AcceptedHasCover ==
    /\ Accepted => NonEmpty(CoverUrlOf(probe.c, Item))
    /\ Normalized => CoverOf(probe.out) = CoverUrlOf(probe.c, Item)
    /\ Succeeded => NonEmpty(CoverOf(probe.step.response.body))

\* an accepted item whose first candidate is empty has been returned with 200
C11_Witness ==
    /\ Succeeded
    /\ probe.c = "comic"
    /\ ~Truthy(Get(Get(Item, "image", None), "medium_url", None))
    /\ CoverOf(probe.step.response.body) = CoverUrl

\* C12: the validity filters never raise: for every item shape the filter
\* returns true or false.
C12_FiltersNeverRaise == Validated => ~IsExc(probe.valid)

\* the candidate image URLs the filter of provider c looks at
CandidateUrls(c, item) ==
    LET container == IF c = "comic" THEN Get(item, "image", EmptyDict)
                     ELSE Get(Get(item, "images", EmptyDict), "jpg", EmptyDict)
        keys == IF c = "comic" THEN {"medium_url", "small_url", "original_url"}
                ELSE {"large_image_url", "image_url"}
    IN IF container.t = "dict" THEN {Get(container, k, None) : k \in keys} ELSE {}

ContainsMarker(url) == url.t = "str" /\ \E n \in 1..Len(url.s) : url.s[n] = PlaceholderMarker

OnlyPlaceholders(c, item) ==
    LET urls == {u \in CandidateUrls(c, item) : NonEmpty(u)}
    IN urls # {} /\ \A u \in urls : ContainsMarker(u)

\* C13: an item whose only candidate image URLs contain the provider's
\* placeholder marker is rejected by the filter, and the handler goes on to
\* the next sample instead of returning it.
C13_PlaceholderRejected ==
    (Validated /\ OnlyPlaceholders(probe.c, Item)) =>
        /\ probe.valid = Bool(FALSE)
        /\ probe.stage = "handled" => probe.step = Continue


(***************************************************************************)
(* Credentials and request signing.                                        *)
(***************************************************************************)
\* the credentials a request of client c carries in its parameters
Credentials(c, p) ==
    CASE c = "comic"  -> {p.api_key}
      [] c = "jikan"  -> {}
      [] c = "marvel" -> {p.auth.apikey}

EmptyKeys == {None, EmptyStr}

\* C14: a missing credential is rejected when the client is constructed and
\* no request is made without one: the constructors raise ValueError on an
\* empty key, no client object holds an empty key, every request sent
\* carries a non-empty credential, and with COMIC_VINE_API_KEY unset or empty
\* random_comic makes no client call and no request and answers 503.
C14_NoCredentialNoRequest ==
    /\ \A k \in EmptyKeys :
          /\ IsExc(ComicVineClient(k)) /\ ComicVineClient(k).type = "ValueError"
          /\ IsExc(MarvelClient(k, Key)) /\ MarvelClient(k, Key).type = "ValueError"
          /\ IsExc(MarvelClient(Key, k)) /\ MarvelClient(Key, k).type = "ValueError"
    /\ clients.comic # None => ~IsExc(clients.comic) /\ Truthy(clients.comic.d.api_key)
    /\ clients.marvel # None =>
          /\ ~IsExc(clients.marvel)
          /\ Truthy(clients.marvel.d.public_key) /\ Truthy(clients.marvel.d.private_key)
    /\ \A i \in Invocations :
          /\ \A n \in 1..Len(sent[i]) :
                \A k \in Credentials(ClientOf(handler[i]), sent[i][n].params) : Truthy(k)
          /\ (handler[i] = "random_comic" /\ ~Truthy(environ.COMIC_VINE_API_KEY)) =>
                /\ calls[i] = 0 /\ total_requests[i] = 0
                /\ pc[i] = "done" => response[i] = NotAvailable
          /\ (handler[i] = "marvel_main"
                /\ (~Truthy(environ.MARVEL_PUBLIC_KEY) \/ ~Truthy(environ.MARVEL_PRIVATE_KEY))) =>
                calls[i] = 0 /\ total_requests[i] = 0 /\ clients.marvel = None

\* random_comic has answered 503 without a key and without a client call
C14_Witness ==
    \E i \in Invocations :
        /\ handler[i] = "random_comic" /\ pc[i] = "done"
        /\ ~Truthy(environ.COMIC_VINE_API_KEY)
        /\ response[i].status = 503 /\ calls[i] = 0 /\ total_requests[i] = 0

\* C15: every request the Marvel client sends carries the ts and hash
\* computed from the time current at that request, retries included.
C15_SignaturePerRequest ==
    \A i \in Invocations :
        handler[i] = "marvel_main" =>
            \A n \in 1..Len(sent[i]) :
                sent[i][n].params.auth = GenerateAuthParams(clients.marvel, sent[i][n].at)


(***************************************************************************)
(* Year extraction and the year of the normalized result.                  *)
(***************************************************************************)
Fetched == probe.stage # "body"

\* a Comic Vine payload with the OK envelope and one item that is an object
SingleComic(body) ==
    /\ body.t = "dict"
    /\ Get(body, "error", None) = Lit("OK")
    /\ Get(body, "results", EmptyList).t = "list"
    /\ Len(Get(body, "results", EmptyList).l) = 1
    /\ Get(body, "results", EmptyList).l[1].t = "dict"

HasLeadingYear(date) ==
    date.t = "str" /\ Len(date.s) >= 4 /\ \A n \in 1..4 : IsDigit(date.s[n])
LeadingYear(date) == DigitsValue(SubSeq(date.s, 1, 4), 0)

\* C16: the Comic Vine client takes the leading four digits of cover_date as
\* the year, and any other value of the field gives an absent year; in both
\* cases the call returns the item.
C16_LeadingFourDigits ==
    (Fetched /\ probe.c = "comic" /\ SingleComic(probe.body)) =>
        LET item == probe.body.d.results.l[1]
            date == Get(item, "cover_date", EmptyStr)
        IN probe.fetched =
              Return(IF HasLeadingYear(date) THEN Num(LeadingYear(date)) ELSE None, item)

\* C17: a year a client returns, when present, is an integer in 1000..9999;
\* the Marvel client's year is the one of its dateRange, within
\* MIN_COMIC_YEAR..MAX_COMIC_YEAR.
C17_FourDigitYear ==
    (Fetched /\ probe.fetched.act = "return") =>
        /\ Truthy(probe.fetched.year) =>
              probe.fetched.year.t = "int" /\ probe.fetched.year.n \in 1000..9999
        /\ probe.c = "marvel" =>
              /\ probe.fetched.year = Num(probe.random_year)
              /\ probe.random_year \in MIN_COMIC_YEAR..MAX_COMIC_YEAR

Sentinels == {None, Num(0), EmptyStr}

\* C18: the normalized result has a "year" entry exactly when the year handed
\* to the normalizer is present, the entry is that year, and it is never one
\* of the values that stand for "no year" (None, 0, ""): the normalizer
\* takes exactly these as absent (if year:).
C18_YearOmittedWhenAbsent ==
    Normalized =>
        LET year == probe.fetched.year
        IN /\ "year" \in DOMAIN probe.out.d <=> year \notin Sentinels
           /\ "year" \in DOMAIN probe.out.d =>
                 probe.out.d.year = year /\ probe.out.d.year \notin Sentinels

\* a result with its year, and the item had one
C18_Witness ==
    /\ Normalized
    /\ probe.fetched.year = Num(1989)
    /\ "year" \in DOMAIN probe.out.d /\ probe.out.d.year = Num(1989)

(***************************************************************************)
(* Title and cover url selection.                                          *)
(***************************************************************************)
\* the first non-empty value of a list of candidates, or ""
RECURSIVE FirstNonEmpty(_)
FirstNonEmpty(candidates) ==
    IF candidates = <<>> THEN EmptyStr
    ELSE IF NonEmpty(Head(candidates)) THEN Head(candidates)
    ELSE FirstNonEmpty(Tail(candidates))

\* C19: the anime normalizer's title is title_english when that is present
\* and non-empty, else title when that is present and non-empty, else
\* "Unknown Anime"; {title: Native, title_english: English} gives English and
\* {title: Native} gives Native.
C19_EnglishThenNative ==
    /\ (Normalized /\ probe.c = "jikan") =>
          probe.out.d.comic.d.title =
             FirstNonEmpty(<<Get(Item, "title_english", Absent), Get(Item, "title", Absent),
                             Lit("Unknown Anime")>>)
    /\ AnimeTitle(Dict([title |-> Lit("Native"), title_english |-> Lit("English")]))
          = Lit("English")
    /\ AnimeTitle(Dict([title |-> Lit("Native")])) = Lit("Native")

\* an item with an empty English title has been given its native title
C19_Witness ==
    /\ Normalized /\ probe.c = "jikan"
    /\ Get(Item, "title_english", Absent) = EmptyStr
    /\ probe.out.d.comic.d.title = Lit("Native")

\* medium_url, small_url, original_url of the item's image, in this order
ComicCandidates(item) ==
    LET image == Get(item, "image", EmptyDict)
    IN IF image.t = "dict"
       THEN <<Get(image, "medium_url", Absent), Get(image, "small_url", Absent),
              Get(image, "original_url", Absent)>>
       ELSE <<>>

ExampleSmallOnly == Dict([image |-> Dict([medium_url |-> EmptyStr, small_url |-> CoverUrl])])

\* C20: for a Comic Vine item the filter passes exactly when one of
\* medium_url, small_url, original_url is non-empty, and the normalized
\* coverUrl is the first non-empty one in this order; medium_url = "" with
\* small_url = "http://x/y.jpg" passes and gives coverUrl "http://x/y.jpg".
C20_FirstNonEmptyCandidate ==
    /\ (Validated /\ probe.c = "comic") =>
          (probe.valid = Bool(TRUE)
             <=> \E n \in 1..Len(ComicCandidates(Item)) : NonEmpty(ComicCandidates(Item)[n]))
    /\ (Normalized /\ probe.c = "comic") =>
          CoverOf(probe.out) = FirstNonEmpty(ComicCandidates(Item))
    /\ is_valid_comic(ExampleSmallOnly) = Bool(TRUE)
    /\ CoverOf(format_comic_response(ExampleSmallOnly, None)) = CoverUrl

\* an item with an empty medium_url has been normalized to its small_url
\* although it has an original_url too
C20_Witness ==
    /\ Normalized /\ probe.c = "comic"
    /\ ComicCandidates(Item) = <<EmptyStr, CoverUrl, OriginalUrl>>
    /\ CoverOf(probe.out) = CoverUrl


(***************************************************************************)
(* Invocations running at the same time.                                   *)
(***************************************************************************)
\* what one client call gives when it runs alone on the responses rs, from
\* attempt n on
RECURSIVE CallOutcome(_, _, _, _)
CallOutcome(c, rs, n, year) ==
    IF rs = <<>> THEN NoResult
    ELSE LET o == Attempt(c, n, Head(rs), year)
         IN IF o.act # "retry" THEN o
            ELSE IF LoopContinues(c, n + 1) THEN CallOutcome(c, Tail(rs), n + 1, year)
            ELSE Raise(Raised(APIError(c), "Unexpected error: maximum retries reached", None))

OwnCall(i) == CallOutcome(ClientOf(handler[i]), RequestsOf(trace[i]), 0, random_year[i])

\* C21: the client objects stay as they were constructed, and of two
\* invocations running at the same time on one client each counts its own
\* samples and its own attempts: it makes at most MAX_RETRY_ATTEMPTS client
\* calls, each call gives what it gives alone on the responses this
\* invocation received, and the invocation ends as it does alone: 404 after
\* MAX_RETRY_ATTEMPTS skipped samples of its own, otherwise with the answer
\* to its own last sample.
C21_InvocationsIndependent ==
    /\ clients = [comic |-> ServerComicClient(environ), jikan |-> JikanClient, marvel |-> None]
    /\ \A i \in Invocations :
          /\ calls[i] <= MAX_RETRY_ATTEMPTS /\ attempt[i] = calls[i]
          /\ pc[i] \in {"request", "returned"} =>
                /\ client_attempt[i] = Len(DelaysOf(trace[i]))
                /\ skipped[i] = calls[i] - 1
          /\ pc[i] = "returned" => result[i] = OwnCall(i)
          /\ pc[i] = "done" =>
                IF response[i].status = 404
                THEN /\ calls[i] = MAX_RETRY_ATTEMPTS /\ skipped[i] = MAX_RETRY_ATTEMPTS
                     /\ response[i] = NoValidItemFound(handler[i])
                ELSE /\ skipped[i] = calls[i] - 1
                     /\ result[i] = OwnCall(i)
                     /\ HandleSample(handler[i], result[i]) = Respond(response[i], logged[i])

\* both invocations are inside a client call on the same client, one at its
\* last sample and third attempt, the other at its first sample and attempt
C21_Witness ==
    /\ handler[1] = handler[2]
    /\ pc[1] = "request" /\ pc[2] = "request"
    /\ attempt[1] = MAX_RETRY_ATTEMPTS /\ client_attempt[1] = 2
    /\ attempt[2] = 1 /\ client_attempt[2] = 0


(***************************************************************************)
(* The sampling loop as a whole.                                           *)
(***************************************************************************)
Normalizer(h, item, year) ==
    IF h = "random_comic" THEN format_comic_response(item, year)
    ELSE format_anime_response(item, year)

\* the sample at hand was returned by its client call and passes the filter
ValidSample(i) == result[i].act = "return" /\ is_valid(handler[i], result[i].item) = Bool(TRUE)

C22_Sampled ==
    \A i \in Invocations :
        Sampling(i) =>
            \* every sample before the one at hand was handled once, and skipped
            /\ pc[i] \in {"request", "returned"} => skipped[i] = calls[i] - 1
            \* the sample at hand is the result of the requests of this call
            /\ pc[i] = "returned" => result[i] = OwnCall(i)
            \* a 200 is the normalized sample k, after k - 1 skipped samples
            /\ (pc[i] = "done" /\ response[i].status = 200) =>
                  /\ ValidSample(i) /\ result[i] = OwnCall(i)
                  /\ calls[i] = skipped[i] + 1 /\ calls[i] <= MAX_RETRY_ATTEMPTS
                  /\ response[i].body = Normalizer(handler[i], result[i].item, result[i].year)

C22_Step ==
    \A i \in Invocations :
        Sampling(i) =>
            \* a sample that passes the filter ends the invocation
            /\ (pc[i] = "returned" /\ ValidSample(i) /\ pc'[i] # pc[i]) =>
                  pc'[i] = "done" /\ calls'[i] = calls[i]
            \* a skipped sample is dropped: the next one comes from a new call
            /\ skipped'[i] # skipped[i] =>
                  /\ pc[i] = "returned" /\ ~ValidSample(i) /\ result[i].act = "return"
                  /\ skipped'[i] = skipped[i] + 1 /\ pc'[i] = "loop" /\ trace'[i] = <<>>
            /\ (pc[i] = "loop" /\ pc'[i] = "request") =>
                  calls'[i] = calls[i] + 1 /\ trace'[i] = <<>>
            \* after the end there are no more calls
            /\ pc[i] = "done" => UNCHANGED <<pc[i], calls[i], response[i], total_requests[i]>>

\* C22: the handler stops at the first sample that passes the validity
\* filter: when sample k is the first valid one (and no call failed before),
\* exactly k client calls are made, the 200 response is the normalizer's
\* result for sample k's item and year, and a rejected sample is handled once
\* and never again: the next sample comes from a new client call.
C22_StopsAtFirstValid == []C22_Sampled /\ [][C22_Step]_vars

\* the third sample was the first valid one and has been returned with its year
C22_Witness ==
    \E i \in Invocations :
        /\ pc[i] = "done" /\ response[i].status = 200
        /\ calls[i] = 3 /\ skipped[i] = 2
        /\ "year" \in DOMAIN response[i].body.d


\* the statuses of success, NoValidItemFound and failure (500, or 503 when
\* the client is not configured)
Outcomes == {200, 404, 500, 503}

Ended == \A i \in Invocations : pc[i] \in {"idle", "done"}

C23_Bounded ==
    \A i \in Invocations :
        Orchestrated(i) =>
            /\ total_requests[i] <= MAX_RETRY_ATTEMPTS * MAX_RETRIES(Client(i))
            /\ total_sleeps[i] <= MAX_RETRY_ATTEMPTS * (MAX_RETRIES(Client(i)) - 1)
            /\ IF pc[i] = "done" THEN response[i].status \in Outcomes
               ELSE response[i] = NoResponse

C23_OneOutcome ==
    \A i \in Invocations :
        Orchestrated(i) =>
            /\ response'[i] # response[i] => pc[i] # "done" /\ pc'[i] = "done"
            /\ pc[i] = "done" =>
                  UNCHANGED <<pc[i], response[i], total_requests[i], total_sleeps[i]>>

\* C23: every invocation ends, whatever the provider answers, after at most
\* MAX_RETRY_ATTEMPTS x MAX_RETRIES (30) requests and at most
\* MAX_RETRY_ATTEMPTS x (MAX_RETRIES - 1) (20) sleeps, with one response that
\* is a success, the 404 of NoValidItemFound, or a failure, and it does
\* nothing after it.
C23_Terminates == <>Ended /\ []C23_Bounded /\ [][C23_OneOutcome]_vars

\* an invocation has ended after 30 requests and 20 sleeps
C23_Witness ==
    \E i \in Invocations :
        /\ Orchestrated(i) /\ pc[i] = "done"
        /\ total_requests[i] = 30 /\ total_sleeps[i] = 20


(***************************************************************************)
(* Failures of a client call.                                              *)
(***************************************************************************)
\* the statuses client c has no rate-limit branch for
PlainStatus(c, status) ==
    CASE c = "comic"  -> status # 420
      [] c = "jikan"  -> status # 429
      [] c = "marvel" -> TRUE

\* C24: an HTTP error status the client does not handle as a rate limit
\* (for Comic Vine and Marvel 429 too) ends the call on the attempt where it
\* occurs with the "API returned error" failure: it is the last request of
\* the call, no sleep follows it, and the remaining attempts are not used.
C24_HttpErrorEndsCall ==
    \A i \in Invocations :
        \A n \in 1..Len(trace[i]) :
            LET ev == trace[i][n]
            IN (ev.e = "request" /\ ev.r.k = "http" /\ PlainStatus(Client(i), ev.r.status)) =>
                  /\ n = Len(trace[i])
                  /\ pc[i] # "request"
                  /\ result[i] = HttpFailure(Client(i), ev.r.status)
                  /\ Len(RequestsOf(trace[i])) = client_attempt[i] + 1
                  /\ Len(DelaysOf(trace[i])) = client_attempt[i]

\* a Jikan call whose first request met 429 and was retried has ended on its
\* second attempt with a 500, with its third attempt unused
C24_Witness ==
    \E i \in Invocations :
        /\ Client(i) = "jikan" /\ CallEnded(i)
        /\ trace[i] = <<Requested(HTTPError(429)), Slept(RETRY_DELAY("jikan") * 2),
                        Requested(HTTPError(500))>>
        /\ result[i] = HttpFailure("jikan", 500)


\* C25: a client call that ends abnormally ends with the client's own
\* exception class, whatever the shape of the payload.
C25_TypedFailuresOnly ==
    \A i \in Invocations :
        result[i].act = "raise" => result[i].exc.type = APIError(Client(i))

ResidualText == "Unexpected error: maximum retries reached"

\* C26: the raise after the retry loop is never reached: no call ends with
\* the "maximum retries reached" failure, a request is only made while
\* attempts remain, the last attempt returns or raises and is never followed
\* by a sleep, and every failure of a call is raised inside the loop by the
\* attempt it belongs to (as the client's classified failure, or as the
\* exception that escapes from payload handling).
C26_ResidualUnreachable ==
    \A i \in Invocations :
        /\ result[i] # GenericFailure(Client(i))
        /\ result[i].act = "raise" => result[i].exc.text # ResidualText
        /\ pc[i] = "request" => client_attempt[i] < MAX_RETRIES(Client(i))
        /\ Len(DelaysOf(trace[i])) <= MAX_RETRIES(Client(i)) - 1
        /\ Len(RequestsOf(trace[i])) <= MAX_RETRIES(Client(i))
        /\ Len(RequestsOf(trace[i])) = MAX_RETRIES(Client(i)) =>
              /\ pc[i] # "request"
              /\ result[i].act \in {"return", "raise"}
              /\ trace[i][Len(trace[i])].e = "request"

\* a Marvel call has used all its attempts and ended with a connection failure
C26_Witness ==
    \E i \in Invocations :
        /\ Client(i) = "marvel" /\ CallEnded(i)
        /\ Len(RequestsOf(trace[i])) = MAX_RETRIES("marvel")
        /\ result[i] = ConnectFailure("marvel", Lit("Connection refused"))

====
